---- MODULE Spec2Model ----
(***************************************************************************)
(* A model of examples/test01.cpp: the Node accessor class, the free       *)
(* functions add and strlength.  Each of the three is driven by its own    *)
(* specification (SpecNode, SpecAdd, SpecStr) over its own variables.      *)
(***************************************************************************)
EXTENDS Integers, Sequences, FiniteSets, TLC

VARIABLES
    node,      \* the Node object: [x, y], each Stored(v) for an int v, or Uninit
    npc,       \* 0: no setXY in progress; k > 0: setXY is about to run its k-th statement
    nargs,     \* the arguments <<x, y>> of the setXY call in progress
    nold,      \* the Node's fields when the setXY call in progress was entered
    lastOp,    \* the member function that returned last, its arguments and result
    prevOp,    \* the member function that returned before lastOp
    stmt,      \* the statement the last step executed
    setCalls,  \* the setters (setX, setY) called so far, directly or from setXY
    addCall,   \* the call of add: its arguments, the path taken, its outcome
    seq,       \* the char array strlength is given (seq[k + 1] models the C seq[k])
    spc,       \* where control stands in strlength
    si,        \* strlength's local i
    reads,     \* the indices of seq read so far
    iters,     \* the number of times the loop body has run
    oob,       \* whether a read outside the array has happened
    sret       \* strlength's return value

nodeVars == <<node, npc, nargs, nold, lastOp, prevOp, stmt, setCalls>>

addVars == <<addCall>>

strVars == <<seq, spc, si, reads, iters, oob, sret>>

vars == <<nodeVars, addVars, strVars>>

-----------------------------------------------------------------------------
(* Bounds *)

\* Node fields and arguments are drawn from 0..MaxVal.
MaxVal == 2

NodeInts == 0..MaxVal

\* Arrays given to strlength hold at most MaxLen chars, each in 0..MaxChar; a
\* scan that has left the array is followed for at most MaxOver more reads.
MaxLen == 3

MaxChar == 2

MaxOver == 2

\* The int arguments of add are drawn from -MaxArg..MaxArg and the values at
\* the edges of the int range.
MaxArg == 3

-----------------------------------------------------------------------------
(* int and float *)

\* int is 32 bits wide.
INT_MAX == 2147483647

INT_MIN == -INT_MAX - 1

RECURSIVE Pow2(_)
Pow2(e) == IF e = 0 THEN 1 ELSE 2 * Pow2(e - 1)

\* Whether the mathematical product a * b is an int.
MulFits(a, b) ==
    IF a = 0 \/ b = 0 THEN TRUE
    ELSE IF a > 0 /\ b > 0 THEN a <= INT_MAX \div b
    ELSE IF a < 0 /\ b < 0
         THEN a # INT_MIN /\ b # INT_MIN /\ (-a) <= INT_MAX \div (-b)
    ELSE IF a < 0 THEN a >= (INT_MIN \div b) + (IF INT_MIN % b = 0 THEN 0 ELSE 1)
    ELSE b >= (INT_MIN \div a) + (IF INT_MIN % a = 0 THEN 0 ELSE 1)

\* a * b modulo 2^32 as a two's complement int, computed on 16-bit halves
\* (a = ah * 2^16 + al, b = bh * 2^16 + bl) so that no partial result leaves
\* the int range.
WrapMul(a, b) ==
    LET H   == 65536
        al  == a % H
        ah  == a \div H
        bl  == b % H
        bh  == b \div H
        mid == (((ah * bl) % H) + ((al * bh) % H)) % H
        p1  == (al \div 256) * bl
        p0  == (al % 256) * bl
        low == p0 + (p1 % 256) * 256
        lo  == low % H
        hi  == (mid + (p1 \div 256) + (low \div H)) % H
    IN  IF hi >= 32768 THEN (hi - H) * H + lo ELSE hi * H + lo

\* The outcome of a call: it returns the int v, or the process traps.
Ret(v) == [kind |-> "ret", val |-> v]

Trap == [kind |-> "trap", val |-> 0]

\* The ints the model draws arguments from.
Ints == (-MaxArg..MaxArg) \cup
        {INT_MIN, INT_MIN \div 2 - 1, INT_MIN \div 2, -5, 5, INT_MAX \div 2 + 1, INT_MAX}

\* What an evaluation with undefined behaviour can produce: the value w the
\* two's complement hardware computes, any other int, or a trap.
Undefined(w) == {Ret(w), Trap} \cup {Ret(v) : v \in Ints}

\* A finite float m * 2^e (m an integer of at most 24 bits), and the specials.
Fin(m, e) == [kind |-> "fin", m |-> m, e |-> e]

NaN == [kind |-> "nan", m |-> 0, e |-> 0]

PosInf == [kind |-> "inf", m |-> 1, e |-> 0]

NegInf == [kind |-> "inf", m |-> -1, e |-> 0]

\* The floats the model draws z from: 2.9f and -2.9f, halves, the floats next
\* to 100.0, 150.0, the floats at the edges of the int range, and the specials.
Floats ==
    {Fin(m, -1) : m \in -MaxArg..MaxArg} \cup
    { Fin(12163482, -22), Fin(-12163482, -22),
      Fin(13107199, -17), Fin(100, 0), Fin(25, 2), Fin(13107201, -17),
      Fin(150, 0), Fin(-150, 0),
      Fin(16777215, 7), Fin(2, 30), Fin(-2, 30), Fin(16777215, 30),
      NaN, PosInf, NegInf }

\* z >= k for a float z and an integer constant k > 0 (the comparison is made in
\* double, which holds every float and k exactly).
FloatGE(z, k) ==
    IF z.kind = "nan" THEN FALSE
    ELSE IF z.kind = "inf" THEN z.m > 0
    ELSE IF z.e < 0 THEN (z.m \div Pow2(-z.e)) >= k
    ELSE IF z.m <= 0 THEN FALSE
    ELSE IF MulFits(z.m, Pow2(z.e)) THEN z.m * Pow2(z.e) >= k
    ELSE TRUE

\* The conversion rounding toward minus infinity instead of toward zero.
FloatToInt_floor(z) ==
    IF z.kind # "fin" THEN [ub |-> TRUE, out |-> Undefined(INT_MIN)]
    ELSE IF z.e < 0 THEN [ub |-> FALSE, out |-> {Ret(z.m \div Pow2(-z.e))}]
    ELSE IF MulFits(z.m, Pow2(z.e))
         THEN [ub |-> FALSE, out |-> {Ret(z.m * Pow2(z.e))}]
    ELSE [ub |-> TRUE, out |-> Undefined(INT_MIN)]

\* (int) z: the fractional part is discarded; undefined when the truncated value
\* is no int (the hardware conversion then yields INT_MIN).
FloatToInt(z) ==
    IF z.kind # "fin" THEN [ub |-> TRUE, out |-> Undefined(INT_MIN)]
    ELSE IF z.e < 0
         THEN [ub |-> FALSE,
               out |-> {Ret(IF z.m >= 0 THEN z.m \div Pow2(-z.e)
                                        ELSE -((-z.m) \div Pow2(-z.e)))}]
    ELSE IF MulFits(z.m, Pow2(z.e))
         THEN [ub |-> FALSE, out |-> {Ret(z.m * Pow2(z.e))}]
    ELSE [ub |-> TRUE, out |-> Undefined(INT_MIN)]

-----------------------------------------------------------------------------
(* int add(int x, int y, float z) *)

\* The product with the factor 2 left out.
Product_noDouble(x, y) ==
    IF MulFits(x, y) THEN [ub |-> FALSE, out |-> {Ret(x * y)}]
    ELSE [ub |-> TRUE, out |-> Undefined(WrapMul(x, y))]

\* x * 2 * y, evaluated left to right in int: undefined as soon as x * 2 or
\* (x * 2) * y is no int.
Product(x, y) ==
    IF MulFits(x, 2) /\ MulFits(x * 2, y)
    THEN [ub |-> FALSE, out |-> {Ret((x * 2) * y)}]
    ELSE [ub |-> TRUE, out |-> Undefined(WrapMul(WrapMul(x, 2), y))]

\* The condition with || for &&.
SecondCond_or(y, z) == y <= 0 \/ FloatGE(z, 100)

\* y <= 0 && z >= 100.0
SecondCond(y, z) == y <= 0 /\ FloatGE(z, 100)

\* add refusing the multiplication when it would overflow.
add_checked(x, y, z) ==
    IF x > 0 THEN [path |-> "trunc"] @@ FloatToInt(z)
    ELSE IF SecondCond(y, z) /\ ~Product(x, y).ub THEN [path |-> "mul"] @@ Product(x, y)
    ELSE [path |-> "zero", ub |-> FALSE, out |-> {Ret(0)}]

\* add: the path taken, whether its evaluation is undefined, its possible outcomes.
add(x, y, z) ==
    IF x > 0 THEN [path |-> "trunc"] @@ FloatToInt(z)
    ELSE IF SecondCond(y, z) THEN [path |-> "mul"] @@ Product(x, y)
    ELSE [path |-> "zero", ub |-> FALSE, out |-> {Ret(0)}]

\* No call of add made yet.
NoCall == [pc |-> "idle", x |-> 0, y |-> 0, z |-> Fin(0, 0), path |-> "none",
           ub |-> FALSE, out |-> Ret(0)]

\* A caller about to call add(x, y, z).
Calling(x, y, z) == [pc |-> "call", x |-> x, y |-> y, z |-> z, path |-> "none",
                     ub |-> FALSE, out |-> Ret(0)]

\* The call add(x, y, z) runs to its end: it returns or traps.
Add ==
    /\ addCall.pc = "call"
    /\ LET r == add(addCall.x, addCall.y, addCall.z)
       IN  \E o \in r.out :
               addCall' = [addCall EXCEPT !.pc = "done", !.path = r.path,
                                          !.ub = r.ub, !.out = o]
    /\ UNCHANGED <<nodeVars, strVars>>

AddNext == Add

-----------------------------------------------------------------------------
(* int strlength(const char seq[]) *)

\* The chars; 0 is the terminator '\0'.
Chars == 0..MaxChar

RECURSIVE SeqsUpTo(_)
SeqsUpTo(n) == IF n = 0 THEN {<< >>} ELSE SeqsUpTo(n - 1) \cup [1..n -> Chars]

\* The arrays a caller can pass, with or without a terminator in them.
Arrays == SeqsUpTo(MaxLen)

\* The body stepping over every other char.
Advance_by2(i) == i + 2

\* The return value off by one.
RetVal_plus1(i) == i + 1

\* seq[i] != '\0', c being the char read at seq[i]
LoopCond(c) == c # 0

\* i++
Advance(i) == i + 1

\* return i;
RetVal(i) == i

\* No call of strlength made yet.
StrIdle ==
    /\ seq = << >>
    /\ spc = "idle"
    /\ si = 0
    /\ reads = {}
    /\ iters = 0
    /\ oob = FALSE
    /\ sret = 0

\* A caller about to call strlength(seq).
StrInit ==
    /\ seq \in Arrays
    /\ spc = "call"
    /\ si = 0
    /\ reads = {}
    /\ iters = 0
    /\ oob = FALSE
    /\ sret = 0

\* int i = 0;
StrEnter ==
    /\ spc = "call"
    /\ si' = 0
    /\ spc' = "test"
    /\ UNCHANGED <<seq, reads, iters, oob, sret>>
    /\ UNCHANGED <<nodeVars, addVars>>

\* while (seq[i] != '\0'), seq[i] inside the array.
StrTest ==
    /\ spc = "test"
    /\ si < Len(seq)
    /\ reads' = reads \cup {si}
    /\ spc' = IF LoopCond(seq[si + 1]) THEN "body" ELSE "exit"
    /\ UNCHANGED <<seq, si, iters, oob, sret>>
    /\ UNCHANGED <<nodeVars, addVars>>

\* while (seq[i] != '\0'), seq[i] outside the array: the read is undefined; it
\* yields some char, or the process traps.
StrTestOutside ==
    /\ spc = "test"
    /\ si >= Len(seq)
    /\ reads' = reads \cup {si}
    /\ oob' = TRUE
    /\ \/ spc' = "trap"
       \/ \E c \in Chars :
            /\ LoopCond(c) => si < Len(seq) + MaxOver
            /\ spc' = IF LoopCond(c) THEN "body" ELSE "exit"
    /\ UNCHANGED <<seq, si, iters, sret>>
    /\ UNCHANGED <<nodeVars, addVars>>

\* i++;
StrBody ==
    /\ spc = "body"
    /\ si' = Advance(si)
    /\ iters' = iters + 1
    /\ spc' = "test"
    /\ UNCHANGED <<seq, reads, oob, sret>>
    /\ UNCHANGED <<nodeVars, addVars>>

\* return i;
StrReturn ==
    /\ spc = "exit"
    /\ sret' = RetVal(si)
    /\ spc' = "done"
    /\ UNCHANGED <<seq, si, reads, iters, oob>>
    /\ UNCHANGED <<nodeVars, addVars>>

StrNext ==
    \/ StrEnter
    \/ StrTest
    \/ StrTestOutside
    \/ StrBody
    \/ StrReturn

-----------------------------------------------------------------------------
(* class Node *)

\* The content of a field no statement has written yet (no constructor is defined),
\* and the content of a field holding the int v.
Uninit == << >>

Stored(v) == << v >>

\* A default constructor that zero-initializes, which the class does not define.
Node_zeroInit == [x |-> Stored(0), y |-> Stored(0)]

\* A default-constructed Node: int x, y with no initializer.
Node == [x |-> Uninit, y |-> Uninit]

\* setX assigning both fields.
setX_clobberY(n, v) == [n EXCEPT !.x = Stored(v), !.y = Stored(v)]

\* void Node::setX(int x) { this->x = x; }
setX(n, v) == [n EXCEPT !.x = Stored(v)]

\* void Node::setY(int y) { this->y = y; }
setY(n, v) == [n EXCEPT !.y = Stored(v)]

\* setXY passing its arguments to the wrong setters.
setXY_swappedArgs(a, b) == << [fn |-> "setX", arg |-> b], [fn |-> "setY", arg |-> a] >>

\* setXY calling setY before setX.
setXY_swappedOrder(a, b) == << [fn |-> "setY", arg |-> b], [fn |-> "setX", arg |-> a] >>

\* The body of setXY(x, y): the member calls it makes, in program order.
setXY(a, b) == << [fn |-> "setX", arg |-> a], [fn |-> "setY", arg |-> b] >>

\* The values a read of field f can yield: the stored int, or, for a field never
\* written, any int (the read is undefined).
ReadField(f) == IF f = Uninit THEN NodeInts ELSE {f[1]}

\* int Node::getX() { return this->x; }
getX(n) == ReadField(n.x)

\* int Node::getY() { return this->y; }
getY(n) == ReadField(n.y)

NoOp == [op |-> "none", a |-> 0, b |-> 0, ret |-> 0, uninitRead |-> FALSE]

NodeInit ==
    /\ node = Node
    /\ npc = 0
    /\ nargs = <<0, 0>>
    /\ nold = Node
    /\ lastOp = NoOp
    /\ prevOp = NoOp
    /\ stmt = "none"
    /\ setCalls = {}

\* n.setX(v) called from outside the class.
SetX(v) ==
    /\ npc = 0
    /\ node' = setX(node, v)
    /\ lastOp' = [op |-> "setX", a |-> v, b |-> 0, ret |-> 0, uninitRead |-> FALSE]
    /\ prevOp' = lastOp
    /\ stmt' = "setX"
    /\ setCalls' = setCalls \cup {"setX"}
    /\ UNCHANGED <<npc, nargs, nold, addVars, strVars>>

\* n.setY(v) called from outside the class.
SetY(v) ==
    /\ npc = 0
    /\ node' = setY(node, v)
    /\ lastOp' = [op |-> "setY", a |-> 0, b |-> v, ret |-> 0, uninitRead |-> FALSE]
    /\ prevOp' = lastOp
    /\ stmt' = "setY"
    /\ setCalls' = setCalls \cup {"setY"}
    /\ UNCHANGED <<npc, nargs, nold, addVars, strVars>>

\* n.setXY(a, b) is entered: control stands before its first statement.
SetXYCall(a, b) ==
    /\ npc = 0
    /\ npc' = 1
    /\ nargs' = <<a, b>>
    /\ nold' = node
    /\ stmt' = "call setXY"
    /\ UNCHANGED <<node, lastOp, prevOp, setCalls, addVars, strVars>>

\* The next statement of setXY's body runs.
SetXYStep ==
    /\ npc > 0
    /\ npc <= Len(setXY(nargs[1], nargs[2]))
    /\ LET s == setXY(nargs[1], nargs[2])[npc]
       IN  /\ node' = IF s.fn = "setX" THEN setX(node, s.arg) ELSE setY(node, s.arg)
           /\ stmt' = s.fn
           /\ setCalls' = setCalls \cup {s.fn}
    /\ npc' = npc + 1
    /\ UNCHANGED <<nargs, nold, lastOp, prevOp, addVars, strVars>>

\* setXY returns to its caller.
SetXYReturn ==
    /\ npc > Len(setXY(nargs[1], nargs[2]))
    /\ npc' = 0
    /\ lastOp' = [op |-> "setXY", a |-> nargs[1], b |-> nargs[2], ret |-> 0,
                  uninitRead |-> FALSE]
    /\ prevOp' = lastOp
    /\ stmt' = "return setXY"
    /\ UNCHANGED <<node, nargs, nold, setCalls, addVars, strVars>>

\* n.getX() called from outside the class.
GetX ==
    /\ npc = 0
    /\ \E r \in getX(node) :
          lastOp' = [op |-> "getX", a |-> 0, b |-> 0, ret |-> r,
                     uninitRead |-> (node.x = Uninit)]
    /\ prevOp' = lastOp
    /\ stmt' = "getX"
    /\ UNCHANGED <<node, npc, nargs, nold, setCalls, addVars, strVars>>

\* n.getY() called from outside the class.
GetY ==
    /\ npc = 0
    /\ \E r \in getY(node) :
          lastOp' = [op |-> "getY", a |-> 0, b |-> 0, ret |-> r,
                     uninitRead |-> (node.y = Uninit)]
    /\ prevOp' = lastOp
    /\ stmt' = "getY"
    /\ UNCHANGED <<node, npc, nargs, nold, setCalls, addVars, strVars>>

NodeNext ==
    \/ \E v \in NodeInts : SetX(v)
    \/ \E v \in NodeInts : SetY(v)
    \/ \E a \in NodeInts, b \in NodeInts : SetXYCall(a, b)
    \/ SetXYStep
    \/ SetXYReturn
    \/ GetX
    \/ GetY

-----------------------------------------------------------------------------
(* Specifications *)

\* A program that uses a Node.
InitNode == NodeInit /\ addCall = NoCall /\ StrIdle

SpecNode == InitNode /\ [][NodeNext]_vars

\* A program that calls add once, with any arguments.
AddInit == \E x \in Ints, y \in Ints, z \in Floats : addCall = Calling(x, y, z)

InitAdd == NodeInit /\ AddInit /\ StrIdle

SpecAdd == InitAdd /\ [][AddNext]_vars

\* A program that calls strlength once, on any array.  Control is sequential:
\* a step that can be taken is taken.
InitStr == NodeInit /\ addCall = NoCall /\ StrInit

SpecStr == InitStr /\ [][StrNext]_vars /\ WF_vars(StrNext)

-----------------------------------------------------------------------------
(* Claims about Node *)

\* C1: immediately after n.setXY(a, b) returns, whatever the fields held before
\* (never-written fields included), the fields hold a and b, a getX called next
\* returns a and a getY called next returns b.
C1_SetXYThenGet ==
    /\ (stmt = "return setXY" =>
            node.x = Stored(lastOp.a) /\ node.y = Stored(lastOp.b))
    /\ (lastOp.op = "getX" /\ prevOp.op = "setXY" => lastOp.ret = prevOp.a)
    /\ (lastOp.op = "getY" /\ prevOp.op = "setXY" => lastOp.ret = prevOp.b)

\* A getX right after a setXY(a, b) with a # b on a Node whose x was never written.
C1_Witness ==
    /\ lastOp.op = "getX"
    /\ prevOp.op = "setXY"
    /\ prevOp.a # prevOp.b
    /\ nold.x = Uninit

\* C6: the fields change only in steps that run setX or setY (called directly or
\* as a statement of setXY); getX and getY leave both fields unchanged, setX
\* leaves y unchanged and setY leaves x unchanged.
C6_Frame ==
    [][ /\ (node' # node => stmt' \in {"setX", "setY"})
        /\ (stmt' \in {"getX", "getY", "call setXY", "return setXY"} => node' = node)
        /\ (stmt' = "setX" => node'.y = node.y)
        /\ (stmt' = "setY" => node'.x = node.x) ]_vars

\* A getX that follows a setY on a Node whose two fields hold different values.
C6_Witness ==
    /\ lastOp.op = "getX"
    /\ prevOp.op = "setY"
    /\ node.x # Uninit
    /\ node.x # node.y

\* C7 as stated: inside setXY(a, b), once the first statement has run x is a and y
\* is still its previous value, and in no state inside setXY is y equal to b
\* while x still holds its old value, whenever the old x differs from a.
C7_AsStated ==
    npc > 0 =>
        /\ (npc = 2 => node.x = Stored(nargs[1]) /\ node.y = nold.y)
        /\ (nold.x # Stored(nargs[1]) =>
                ~(node.y = Stored(nargs[2]) /\ node.x = nold.x))

\* C7 amended: the same, for calls in which the old y differs from b as well as
\* the old x from a.
C7_SetXYOrder ==
    npc > 0 =>
        /\ (npc = 2 => node.x = Stored(nargs[1]) /\ node.y = nold.y)
        /\ (nold.x # Stored(nargs[1]) /\ nold.y # Stored(nargs[2]) =>
                ~(node.y = Stored(nargs[2]) /\ node.x = nold.x))

\* The intermediate state of a setXY(a, b) that changes both of two written fields:
\* x is already a, y is not yet b.
C7_Witness ==
    /\ npc = 2
    /\ nold.x # Uninit
    /\ nold.y # Uninit
    /\ nold.x # Stored(nargs[1])
    /\ nold.y # Stored(nargs[2])
    /\ node.x = Stored(nargs[1])
    /\ node.y # Stored(nargs[2])

\* C10: a default-constructed Node has both fields uninitialized; x is
\* uninitialized exactly until setX has been called (directly or from setXY) and
\* y exactly until setY has been; a getX (getY) before that reads an
\* uninitialized field; no step returns an initialized field to uninitialized.
C10_Lifecycle ==
    /\ [](stmt = "none" => node.x = Uninit /\ node.y = Uninit)
    /\ []((node.x = Uninit) <=> ("setX" \notin setCalls))
    /\ []((node.y = Uninit) <=> ("setY" \notin setCalls))
    /\ []((lastOp.op = "getX" /\ "setX" \notin setCalls) => lastOp.uninitRead)
    /\ []((lastOp.op = "getY" /\ "setY" \notin setCalls) => lastOp.uninitRead)
    /\ [][ /\ (node.x # Uninit => node'.x # Uninit)
           /\ (node.y # Uninit => node'.y # Uninit) ]_vars

\* A getX that read the never-written x after y had been set.
C10_Witness ==
    /\ lastOp.op = "getX"
    /\ lastOp.uninitRead
    /\ node.x = Uninit
    /\ node.y # Uninit

-----------------------------------------------------------------------------
(* Claims about add *)

\* The float 2.9f, the nearest float to 2.9: 12163482 / 2^22.
F2_9 == Fin(12163482, -22)

\* z is finite and its integer part is an int.
Representable(z) ==
    /\ z.kind = "fin"
    /\ z.e >= 0 => (INT_MIN \div Pow2(z.e) <= z.m /\ z.m <= INT_MAX \div Pow2(z.e))

\* The int t is the finite float z with its fractional part discarded.
TruncatesTo(z, t) ==
    IF z.e >= 0 THEN t \div Pow2(z.e) = z.m /\ t % Pow2(z.e) = 0
    ELSE IF z.m >= 0 THEN t = z.m \div Pow2(-z.e)
    ELSE -t = (-z.m) \div Pow2(-z.e)

\* z >= 100.0 and z < 100.0 as statements about the real number z stands for.
AtLeast100(z) ==
    IF z.kind = "nan" THEN FALSE
    ELSE IF z.kind = "inf" THEN z.m > 0
    ELSE IF z.e < 0 THEN z.m >= 100 * Pow2(-z.e)
    ELSE z.m > 99 \div Pow2(z.e)

Below100(z) ==
    IF z.kind = "nan" THEN FALSE
    ELSE IF z.kind = "inf" THEN z.m < 0
    ELSE IF z.e < 0 THEN z.m < 100 * Pow2(-z.e)
    ELSE z.m <= 99 \div Pow2(z.e)

\* For x <= 0 and y <= 0: the mathematical value of x * 2 is an int, and the
\* mathematical value of x * 2 * y is an int.
DoubleInRange(x) == x >= INT_MIN \div 2

ProductInRange(x, y) ==
    \/ x = 0
    \/ y = 0
    \/ (x # INT_MIN /\ y # INT_MIN /\ (-x) <= (INT_MAX \div 2) \div (-y))

\* The mathematical value of x * 2 * y, when it is an int.
ProductValue(x, y) == IF x = 0 \/ y = 0 THEN 0 ELSE 2 * ((-x) * (-y))

AddDone == addCall.pc = "done"

\* C2: for every x > 0, every y and every z whose truncation is an int,
\* add(x, y, z) returns z truncated toward zero, whatever y is and whether or
\* not z >= 100.0; add(5, -3, 2.9) returns 2.
C2_Truncation ==
    /\ (AddDone /\ addCall.x > 0 /\ Representable(addCall.z) =>
            /\ addCall.out.kind = "ret"
            /\ TruncatesTo(addCall.z, addCall.out.val))
    /\ (AddDone /\ addCall.x = 5 /\ addCall.y = -3 /\ addCall.z = F2_9 =>
            addCall.out = Ret(2))

\* add(1, y, -2.9f) has returned, for some y <= 0: a negative z with a fraction.
C2_Witness ==
    /\ AddDone
    /\ addCall.x = 1
    /\ addCall.y <= 0
    /\ addCall.z = Fin(-12163482, -22)
    /\ addCall.out = Ret(-2)

\* C3 as stated: for every x <= 0, y <= 0 and z >= 100.0 with x * 2 * y in the
\* int range, add(x, y, z) returns x * 2 * y.
C3_AsStated ==
    AddDone /\ addCall.x <= 0 /\ addCall.y <= 0 /\ AtLeast100(addCall.z)
            /\ ProductInRange(addCall.x, addCall.y) =>
        addCall.out = Ret(ProductValue(addCall.x, addCall.y))

\* C3 amended: the same for the calls in which x * 2 is in the int range too;
\* add(-1, -2, 150.0) returns 4.
C3_Product ==
    /\ (AddDone /\ addCall.x <= 0 /\ addCall.y <= 0 /\ AtLeast100(addCall.z)
                /\ DoubleInRange(addCall.x)
                /\ ProductInRange(addCall.x, addCall.y) =>
            addCall.out = Ret(ProductValue(addCall.x, addCall.y)))
    /\ (AddDone /\ addCall.x = -1 /\ addCall.y = -2 /\ addCall.z = Fin(150, 0) =>
            addCall.out = Ret(4))

\* add(-3, -2, 100.0) has returned 12: z on the boundary of the condition.
C3_Witness ==
    /\ AddDone
    /\ addCall.x = -3
    /\ addCall.y = -2
    /\ addCall.z = Fin(100, 0)
    /\ addCall.out = Ret(12)

\* C4: for every x <= 0 with y > 0 or z < 100.0, add(x, y, z) returns 0;
\* add(-1, 5, 150.0) returns 0.
C4_Zero ==
    /\ (AddDone /\ addCall.x <= 0 /\ (addCall.y > 0 \/ Below100(addCall.z)) =>
            addCall.out = Ret(0))
    /\ (AddDone /\ addCall.x = -1 /\ addCall.y = 5 /\ addCall.z = Fin(150, 0) =>
            addCall.out = Ret(0))

\* add(-1, 5, 150.0) has returned 0.
C4_Witness ==
    /\ AddDone
    /\ addCall.x = -1
    /\ addCall.y = 5
    /\ addCall.z = Fin(150, 0)
    /\ addCall.out = Ret(0)

\* C9: with 32-bit int, every call with x <= 0, y <= 0 and z >= 100.0 reaches
\* the multiplication, no check standing before it, and the evaluation
\* overflows exactly when the mathematical value of x * 2 or of (x * 2) * y is
\* outside the int range; such calls exist.
C9_Overflow ==
    AddDone /\ addCall.x <= 0 /\ addCall.y <= 0 /\ AtLeast100(addCall.z) =>
        /\ addCall.path = "mul"
        /\ addCall.ub <=> ~(DoubleInRange(addCall.x)
                                /\ ProductInRange(addCall.x, addCall.y))

\* A call whose x * 2 is in range and whose (x * 2) * y is not has reached the
\* multiplication and overflowed there.
C9_Witness ==
    /\ AddDone
    /\ addCall.x = INT_MIN \div 2
    /\ addCall.y = -2
    /\ AtLeast100(addCall.z)
    /\ addCall.path = "mul"
    /\ addCall.ub

-----------------------------------------------------------------------------
(* Claims about strlength *)

\* seq holds a terminator; the index of the first one.
HasTerm == \E k \in 1..Len(seq) : seq[k] = 0

FirstTerm == CHOOSE n \in 0..Len(seq) - 1 :
                 seq[n + 1] = 0 /\ \A k \in 1..n : seq[k] # 0

\* C5: when the first terminator of s is at index n, strlength(s) returns n,
\* the number of chars before it: 0 when s[0] is the terminator, and whatever
\* is stored after index n.
C5_Length ==
    spc = "done" /\ HasTerm =>
        /\ sret = FirstTerm
        /\ \A k \in 1..sret : seq[k] # 0
        /\ seq[sret + 1] = 0

\* strlength has returned 1 on an array holding a char after its terminator.
C5_Witness ==
    /\ spc = "done"
    /\ Len(seq) = 3
    /\ seq[1] # 0
    /\ seq[2] = 0
    /\ seq[3] # 0
    /\ sret = 1

\* C8: when the first terminator is at index n, strlength ends after exactly n
\* runs of the loop body, having read the indices 0..n and no other, and
\* never reads outside the array; it never modifies seq; when the array holds no
\* terminator the scan comes to a read outside the array.
C8_Scan ==
    /\ [](HasTerm => /\ reads \subseteq 0..FirstTerm
                     /\ iters <= FirstTerm
                     /\ ~oob
                     /\ spc = "done" => (iters = FirstTerm /\ reads = 0..FirstTerm))
    /\ (HasTerm ~> spc = "done")
    /\ [][seq' = seq]_vars
    /\ [](~HasTerm /\ spc \in {"exit", "done", "trap"} => oob)
    /\ (~HasTerm ~> oob)

\* strlength has returned after two runs of the loop body and reads of 0, 1, 2.
C8_Witness ==
    /\ spc = "done"
    /\ HasTerm
    /\ FirstTerm = 2
    /\ iters = 2
    /\ reads = {0, 1, 2}

====
